---- MODULE Spec2Model ----
(***************************************************************************)
(* download_inaturalist_images.py as a state machine: the observation      *)
(* loader, the photo metadata loop, the export of image_metadata.csv, the  *)
(* creation of images/ and the download loop, with the file system, the    *)
(* standard output and the calls made to the outside world as state.       *)
(*                                                                         *)
(* Python values are carried as follows.  A str is a TLA+ string.  A JSON  *)
(* number is carried as the text str() renders (an id 7 is "7"), so that   *)
(* str.format is concatenation.  A dict is a function on its keys.  None   *)
(* is the string "None".                                                   *)
(***************************************************************************)
EXTENDS Integers, Sequences, FiniteSets, TLC

\* ------------------------------------------------------------- bounds
\* Largest number of rows of observations.csv.
MaxRows == 21
\* Largest number of photo records a run retrieves.
MaxPhotos == 2

\* ------------------------------------------------- program constants
SliceStart == 10
SliceStop == 20
SleepSeconds == 1
ProgressEvery == 10

\* ------------------------------------------------------ Python helpers
None == "None"

Min(a, b) == IF a < b THEN a ELSE b

\* dict.get(key, default)
Get(d, key, default) == IF key \in DOMAIN d THEN d[key] ELSE default

\* dict.update(other): the keys of other win
Update(d, other) ==
  [k \in DOMAIN d \cup DOMAIN other |-> IF k \in DOMAIN other THEN other[k] ELSE d[k]]

\* d[key] = value
SetItem(d, key, value) == Update(d, key :> value)

\* list[start:stop] for 0 <= start <= stop (0-based, stop exclusive, clipped)
PySlice(list, start, stop) == SubSeq(list, start + 1, Min(stop, Len(list)))

\* str.replace(old, new): every non-overlapping occurrence, left to right
RECURSIVE Replace(_, _, _)
Replace(s, old, new) ==
  IF Len(s) < Len(old) THEN s
  ELSE IF SubSeq(s, 1, Len(old)) = old
       THEN new \o Replace(SubSeq(s, Len(old) + 1, Len(s)), old, new)
       ELSE SubSeq(s, 1, 1) \o Replace(SubSeq(s, 2, Len(s)), old, new)

\* sub in s
RECURSIVE Contains(_, _)
Contains(s, sub) ==
  IF Len(s) < Len(sub) THEN FALSE
  ELSE SubSeq(s, 1, Len(sub)) = sub \/ Contains(SubSeq(s, 2, Len(s)), sub)

\* the elements of a sequence
Range(seq) == {seq[i] : i \in DOMAIN seq}

\* ------------------------------------------------------------ the input
\* observations.csv: absent, without an id column, or an id column of n rows.
\* The id of row p (0-based) is 1 + p % 3: ids repeat down the column.
IdAt(p) == 1 + (p % 3)

NoFile == [exists |-> FALSE, has_id |-> FALSE, ids |-> <<>>]

NoIdColumn == [exists |-> TRUE, has_id |-> FALSE, ids |-> <<>>]

Table(n) == [exists |-> TRUE, has_id |-> TRUE, ids |-> [i \in 1..n |-> IdAt(i - 1)]]

InputFiles == {NoFile, NoIdColumn} \cup {Table(n) : n \in 0..MaxRows}

\* -------------------------------------------------------------- the API
\* The fields of the nested photo object that the exporter keeps.
PhotoKeepFields ==
  {"id", "created_at", "updated_at", "native_page_url", "native_username",
   "license", "subtype", "native_original_image_url", "license_code",
   "attribution", "license_name", "license_url", "type"}

LargeUrl(pid) == "https://x/" \o pid \o "/large.jpg"

\* A complete photo object: the kept fields, large_url, and square_url, a
\* field the exporter does not keep.
FullPhoto(pid) ==
  [f \in PhotoKeepFields \cup {"large_url", "square_url"} |->
     IF f = "id" THEN pid
     ELSE IF f = "large_url" THEN LargeUrl(pid)
     ELSE f \o "-" \o pid]

\* d without key
Without(d, key) == [k \in DOMAIN d \ {key} |-> d[k]]

\* The photo objects a response may carry: complete, without large_url,
\* without id, and with a null large_url.
GoodPhotos ==
  {FullPhoto("1"), Without(FullPhoto("2"), "large_url"), Without(FullPhoto("3"), "id")}

NullLargePhoto == SetItem(FullPhoto("4"), "large_url", None)

\* The entries of observation_photos for observation idno: a wrapper with a
\* photo object, or a wrapper with none.
Wrappers(idno) ==
  {[observation_id |-> ToString(idno), photo |-> p] : p \in GoodPhotos \cup {NullLargePhoto}}
    \cup {[observation_id |-> ToString(idno)]}

\* Sequences over S of length at most n
RECURSIVE SeqsUpTo(_, _)
SeqsUpTo(S, n) ==
  IF n <= 0 THEN {<<>>}
  ELSE LET shorter == SeqsUpTo(S, n - 1)
       IN  shorter \cup {Append(s, x) : s \in {t \in shorter : Len(t) = n - 1}, x \in S}

\* The JSON bodies the API may answer for observation idno, with at most
\* room photos: an object with observation_photos, or an object without (the
\* body of an error answer).
ErrorBody == [error |-> "Observation does not exist."]

JsonBodies(idno, room) ==
  {[observation_photos |-> l] : l \in SeqsUpTo(Wrappers(idno), room)}

\* What requests.get(url).json() may do for observation idno: return the JSON
\* object of the answer, whatever its HTTP status (the status is never read),
\* or raise.  The server answers 404, with an error object, for an
\* observation it no longer has (gone), and 200 otherwise.
Answers(idno, gone, room) ==
  IF idno \in gone
  THEN {[status |-> "404", body |-> ErrorBody]}
  ELSE {[status |-> "200", body |-> b] : b \in JsonBodies(idno, room)}

\* The sets of observations the server may have lost
GoneChoices == SUBSET {3}

RequestErrors == {"ConnectionError", "JSONDecodeError"}

\* The bytes behind an image URL
Content(url) == "bytes of " \o url

\* --------------------------------- lines 49-62, 65: the columns kept
keep_columns ==
  <<"observation_id", "id", "created_at", "updated_at",
    "native_page_url", "native_username", "license", "subtype",
    "native_original_image_url",
    "license_code", "attribution", "license_name", "license_url",
    "type", "original_size_url">>

rename_columns ==
  [c \in {"id", "native_page_url", "native_username", "native_original_image_url",
          "original_size_url"} |->
     CASE c = "id" -> "photo_id"
       [] c = "native_page_url" -> "inaturalist_page_url"
       [] c = "native_username" -> "inaturalist_username"
       [] c = "native_original_image_url" -> "original_image_url"
       [] c = "original_size_url" -> "image_url"]

\* The result of rename dropped: the labels stay as they were
Renamed_NotApplied(c) == c

\* rename(columns=rename_columns), on one label
Renamed(c) == Get(rename_columns, c, c)

\* The header to_csv writes for these labels
CsvHeader(columns) == [j \in DOMAIN columns |-> Renamed(columns[j])]

\* ------------------------------------------------------ the file system
\* A first run starts with no output; a later run starts with the output of
\* an earlier one: image_metadata.csv, images/ and two image files.
OldContent == "bytes of an earlier run"

OldFiles ==
  ("images/observation2_image1.jpg" :> OldContent)
    @@ ("images/observation9_image9.jpg" :> OldContent)

NoCsv == [exists |-> FALSE, header |-> <<>>, rows |-> <<>>]

OldCsv ==
  [exists |-> TRUE,
   header |-> CsvHeader(keep_columns),
   rows |-> <<[j \in DOMAIN keep_columns |-> "earlier run"]>>]

\* ---------------------------------------------------------------- state
VARIABLES
  observations,   \* observations.csv, as found on disk
  rerun,          \* whether the run started on the output of an earlier run
  gone,           \* the observations the server answers 404 for
  image_metadata, \* image_metadata.csv
  imagesDir,      \* whether images/ exists
  files,          \* the files of images/: name -> content
  stdout,         \* the lines printed
  calls,          \* the calls made, in order: requests.get, time.sleep,
                  \* DataFrame.to_csv, os.mkdir, urlretrieve
  uncaught,       \* the exception that ended the run, "" if none
  pc,             \* the statement the script is at
  obs_ids,        \* line 29
  images,         \* line 35
  received,       \* the observation_photos entries appended from, in order
  idx,            \* iterations of the metadata loop completed
  pos,            \* iterations of the download loop completed
  handled,        \* per download iteration: the record, the name, the write
  image_counter   \* line 77

vars ==
  <<observations, rerun, gone, image_metadata, imagesDir, files, stdout, calls,
    uncaught, pc, obs_ids, images, received, idx, pos, handled, image_counter>>

env == <<observations, rerun, gone>>

\* One call to the outside world
Call(op, url, file, outcome, secs) ==
  [op |-> op, url |-> url, file |-> file, outcome |-> outcome, secs |-> secs]

Init ==
  /\ observations \in InputFiles
  /\ rerun \in BOOLEAN
  /\ gone \in GoneChoices
  /\ image_metadata = IF rerun THEN OldCsv ELSE NoCsv
  /\ imagesDir = rerun
  /\ files = IF rerun THEN OldFiles ELSE <<>>
  /\ stdout = <<>>
  /\ calls = <<>>
  /\ uncaught = ""
  /\ pc = "load"
  /\ obs_ids = <<>>
  /\ images = <<>>
  /\ received = <<>>
  /\ idx = 0
  /\ pos = 0
  /\ handled = <<>>
  /\ image_counter = 0

\* An unhandled exception: the traceback names it and the process ends.
Raise(exc) == uncaught' = exc /\ pc' = "crashed"

\* The whole list instead of the slice
LoopIds_WholeList(ids) == ids

\* obs_ids[10:20]
LoopIds(ids) == PySlice(ids, SliceStart, SliceStop)

\* ------------------------------------------------- lines 24-35: loader
\* The message without the exit(): the script runs on with no ids
LoadMissing_NoExit ==
  /\ pc = "load"
  /\ ~observations.exists
  /\ stdout' = Append(stdout, "Could not find observations.csv. Program is now quitting.")
  /\ pc' = "export"
  /\ UNCHANGED <<env, image_metadata, imagesDir, files, calls, uncaught, obs_ids,
                 images, received, idx, pos, handled, image_counter>>

\* observations.csv is absent: the message, then exit().
LoadMissing ==
  /\ pc = "load"
  /\ ~observations.exists
  /\ stdout' = Append(stdout, "Could not find observations.csv. Program is now quitting.")
  /\ pc' = "exited"
  /\ UNCHANGED <<env, image_metadata, imagesDir, files, calls, uncaught, obs_ids,
                 images, received, idx, pos, handled, image_counter>>

\* observations['id'] on a table without that column
LoadNoIdColumn ==
  /\ pc = "load"
  /\ observations.exists
  /\ ~observations.has_id
  /\ Raise("KeyError")
  /\ UNCHANGED <<env, image_metadata, imagesDir, files, stdout, calls, obs_ids,
                 images, received, idx, pos, handled, image_counter>>

LoadObservations ==
  /\ pc = "load"
  /\ observations.exists
  /\ observations.has_id
  /\ obs_ids' = observations.ids
  /\ stdout' = Append(stdout, "Retrieving photo data for "
                                \o ToString(Len(observations.ids)) \o " observations")
  /\ images' = <<>>
  /\ pc' = IF LoopIds(observations.ids) = <<>> THEN "export" ELSE "fetch"
  /\ UNCHANGED <<env, image_metadata, imagesDir, files, calls, uncaught,
                 received, idx, pos, handled, image_counter>>

\* ------------------------------------------ lines 36-45: metadata loop
MetadataUrl(idno) == "https://www.inaturalist.org/observations/" \o ToString(idno) \o ".json"

\* lines 41-42: the wrapper's observation_id, then the photo object's fields
MergedPhoto(photo) ==
  Update([observation_id |-> Get(photo, "observation_id", None)], Get(photo, "photo", <<>>))

\* line 43, the receiver of replace
LargeOf(photo) == Get(MergedPhoto(photo), "large_url", "")

\* lines 41-43: the record appended for one entry of observation_photos
PhotoData(photo) ==
  SetItem(MergedPhoto(photo), "original_size_url", Replace(LargeOf(photo), "large", "original"))

\* The first entry whose large_url is null, on which line 43 raises
\* AttributeError; Len(photos) + 1 if there is none.
FirstBad(photos) ==
  LET bad == {i \in DOMAIN photos : LargeOf(photos[i]) = None}
  IN  IF bad = {} THEN Len(photos) + 1 ELSE CHOOSE i \in bad : \A j \in bad : i <= j

\* images.insert(0, ...): the records of a later answer come first
AppendAll_AtFront(list, records) == records \o list

\* line 44: images.append(photo_data), for each of the records in turn
AppendAll(list, records) == list \o records

\* The id the loop is at
CurrentId == LoopIds(obs_ids)[idx + 1]

\* The request is answered with a JSON object and every entry is appended.
FetchPhotos ==
  /\ pc = "fetch"
  /\ \E a \in Answers(CurrentId, gone, MaxPhotos - Len(images)) :
       LET photos == Get(a.body, "observation_photos", <<>>) IN
         /\ FirstBad(photos) > Len(photos)
         /\ calls' = Append(calls, Call("get", MetadataUrl(CurrentId), "", a.status, 0))
         /\ images' = AppendAll(images, [i \in DOMAIN photos |-> PhotoData(photos[i])])
         /\ received' = received \o photos
  /\ pc' = "fetch_sleep"
  /\ UNCHANGED <<env, image_metadata, imagesDir, files, stdout, uncaught, obs_ids,
                 idx, pos, handled, image_counter>>

\* The request is answered, and an entry has a null large_url: the entries
\* before it are appended and line 43 raises.
FetchMalformed ==
  /\ pc = "fetch"
  /\ \E a \in Answers(CurrentId, gone, MaxPhotos - Len(images)) :
       LET photos == Get(a.body, "observation_photos", <<>>)
           n == FirstBad(photos) - 1
       IN
         /\ n < Len(photos)
         /\ calls' = Append(calls, Call("get", MetadataUrl(CurrentId), "", a.status, 0))
         /\ images' = AppendAll(images, [i \in 1..n |-> PhotoData(photos[i])])
         /\ received' = received \o SubSeq(photos, 1, n)
  /\ Raise("AttributeError")
  /\ UNCHANGED <<env, image_metadata, imagesDir, files, stdout, obs_ids,
                 idx, pos, handled, image_counter>>

\* The failed request is tried again instead of ending the run
FetchRaises_Retries ==
  /\ pc = "fetch"
  /\ \E exc \in RequestErrors :
       calls' = Append(calls, Call("get", MetadataUrl(CurrentId), "", exc, 0))
  /\ UNCHANGED <<env, image_metadata, imagesDir, files, stdout, uncaught, pc, obs_ids,
                 images, received, idx, pos, handled, image_counter>>

\* requests.get(url).json() raises: no connection, or a body that is not JSON.
FetchRaises ==
  /\ pc = "fetch"
  /\ \E exc \in RequestErrors :
       /\ calls' = Append(calls, Call("get", MetadataUrl(CurrentId), "", exc, 0))
       /\ Raise(exc)
  /\ UNCHANGED <<env, image_metadata, imagesDir, files, stdout, obs_ids, images,
                 received, idx, pos, handled, image_counter>>

\* line 45
FetchSleep ==
  /\ pc = "fetch_sleep"
  /\ calls' = Append(calls, Call("sleep", "", "", "", SleepSeconds))
  /\ idx' = idx + 1
  /\ pc' = IF idx + 1 < Len(LoopIds(obs_ids)) THEN "fetch" ELSE "export"
  /\ UNCHANGED <<env, image_metadata, imagesDir, files, stdout, uncaught, obs_ids,
                 images, received, pos, handled, image_counter>>

\* ----------------------------------------------- lines 48-66: exporter
\* pd.DataFrame(images).columns: the keys of all the records together (none
\* for an empty list); a record without a column holds NaN there.
FrameColumns(records) == UNION {DOMAIN records[i] : i \in DOMAIN records}

\* A label counts as missing as soon as one record lacks it
MissingColumns_AnyRecord(records) ==
  {c \in Range(keep_columns) : \E i \in DOMAIN records : c \notin DOMAIN records[i]}

\* images_df[keep_columns] raises KeyError when a label is no column.
MissingColumns(records) == {c \in Range(keep_columns) : c \notin FrameColumns(records)}

\* to_csv writes NaN and None as the empty field.
Cell(image, c) ==
  LET v == Get(image, c, None) IN IF v = None THEN "" ELSE v

\* The table to_csv writes: the header (above), and a row per record.
CsvRow(image, columns) == [j \in DOMAIN columns |-> Cell(image, columns[j])]

CsvTable(records) ==
  [exists |-> TRUE,
   header |-> CsvHeader(keep_columns),
   rows |-> [i \in DOMAIN records |-> CsvRow(records[i], keep_columns)]]

ExportMessage ==
  "Data retrieved for " \o ToString(Len(images)) \o " photos. Exporting to image_metadata.csv"

\* The download loop entered straight after the export, images/ not made
ExportCsv_SkipsMkdir ==
  /\ pc = "export"
  /\ MissingColumns(images) = {}
  /\ stdout' = Append(stdout, ExportMessage)
  /\ image_metadata' = CsvTable(images)
  /\ calls' = Append(calls, Call("to_csv", "", "image_metadata.csv", "", 0))
  /\ pc' = "download"
  /\ UNCHANGED <<env, imagesDir, files, uncaught, obs_ids, images, received,
                 idx, pos, handled, image_counter>>

ExportCsv ==
  /\ pc = "export"
  /\ MissingColumns(images) = {}
  /\ stdout' = Append(stdout, ExportMessage)
  /\ image_metadata' = CsvTable(images)
  /\ calls' = Append(calls, Call("to_csv", "", "image_metadata.csv", "", 0))
  /\ pc' = "mkdir"
  /\ UNCHANGED <<env, imagesDir, files, uncaught, obs_ids, images, received,
                 idx, pos, handled, image_counter>>

\* line 64 raises: no record has one of keep_columns
ExportKeyError ==
  /\ pc = "export"
  /\ MissingColumns(images) # {}
  /\ stdout' = Append(stdout, ExportMessage)
  /\ Raise("KeyError")
  /\ UNCHANGED <<env, image_metadata, imagesDir, files, calls, obs_ids, images,
                 received, idx, pos, handled, image_counter>>

\* ------------------------------------- lines 69-78: images directory
RetrievingMessage == "Retrieving " \o ToString(Len(images)) \o " images"

AfterMkdir == IF images = <<>> THEN "finish" ELSE "download"

MakeImagesDir ==
  /\ pc = "mkdir"
  /\ ~imagesDir
  /\ imagesDir' = TRUE
  /\ calls' = Append(calls, Call("mkdir", "", "images", "", 0))
  /\ stdout' = stdout \o <<"Created images directory.", RetrievingMessage>>
  /\ image_counter' = 0
  /\ pc' = AfterMkdir
  /\ UNCHANGED <<env, image_metadata, files, uncaught, obs_ids, images, received,
                 idx, pos, handled>>

\* FileExistsError not caught
ImagesDirExists_Uncaught ==
  /\ pc = "mkdir"
  /\ imagesDir
  /\ calls' = Append(calls, Call("mkdir", "", "images", "FileExistsError", 0))
  /\ Raise("FileExistsError")
  /\ UNCHANGED <<env, image_metadata, imagesDir, files, stdout, obs_ids, images,
                 received, idx, pos, handled, image_counter>>

\* os.mkdir raises FileExistsError, which line 72 catches
ImagesDirExists ==
  /\ pc = "mkdir"
  /\ imagesDir
  /\ calls' = Append(calls, Call("mkdir", "", "images", "FileExistsError", 0))
  /\ stdout' = stdout \o <<"Images directory already exists.", RetrievingMessage>>
  /\ image_counter' = 0
  /\ pc' = AfterMkdir
  /\ UNCHANGED <<env, image_metadata, imagesDir, files, uncaught, obs_ids, images,
                 received, idx, pos, handled>>

\* ------------------------------------------ lines 79-91: download loop
\* line 82
ImageName(image) ==
  "images/observation" \o Get(image, "observation_id", "Unknown")
    \o "_image" \o Get(image, "id", "Unknown") \o ".jpg"

\* line 83
ImageUrl(image) == Get(image, "original_size_url", None)

\* if image_url is not None
Truthy_NotNone(v) == v # None

\* line 84: if image_url
Truthy(v) == v # None /\ v # ""

\* urlretrieve(url, name) writes the bytes to name, over a file of that name
Retrieve(fs, url, name) == SetItem(fs, name, Content(url))

CurrentImage == images[pos + 1]

ProgressMessage(n) ==
  "Retrieved " \o ToString(n) \o " of " \o ToString(Len(images)) \o " images"

\* lines 80-89, with the download (if any) succeeding
DownloadImage ==
  /\ pc = "download"
  /\ LET name == ImageName(CurrentImage)
         url == ImageUrl(CurrentImage)
     IN
       /\ IF Truthy(url)
          THEN /\ files' = Retrieve(files, url, name)
               /\ calls' = Append(calls, Call("urlretrieve", url, name, "", 0))
          ELSE UNCHANGED <<files, calls>>
       /\ handled' = Append(handled, [image |-> CurrentImage, name |-> name,
                                      wrote |-> Truthy(url)])
  /\ image_counter' = image_counter + 1
  /\ stdout' = IF (image_counter + 1) % ProgressEvery = 0
               THEN Append(stdout, ProgressMessage(image_counter + 1))
               ELSE stdout
  /\ pc' = "download_sleep"
  /\ UNCHANGED <<env, image_metadata, imagesDir, uncaught, obs_ids, images,
                 received, idx, pos>>

DownloadErrors == {"HTTPError", "URLError"}

\* line 85 raises
DownloadRaises ==
  /\ pc = "download"
  /\ Truthy(ImageUrl(CurrentImage))
  /\ \E exc \in DownloadErrors :
       /\ calls' = Append(calls, Call("urlretrieve", ImageUrl(CurrentImage),
                                      ImageName(CurrentImage), exc, 0))
       /\ Raise(exc)
  /\ UNCHANGED <<env, image_metadata, imagesDir, files, stdout, obs_ids, images,
                 received, idx, pos, handled, image_counter>>

\* time.sleep(1) inside the if: no pause after a record without a URL
DownloadSleep_OnlyAfterDownload ==
  /\ pc = "download_sleep"
  /\ calls' = IF handled[Len(handled)].wrote
              THEN Append(calls, Call("sleep", "", "", "", SleepSeconds))
              ELSE calls
  /\ pos' = pos + 1
  /\ pc' = IF pos + 1 < Len(images) THEN "download" ELSE "finish"
  /\ UNCHANGED <<env, image_metadata, imagesDir, files, stdout, uncaught, obs_ids,
                 images, received, idx, handled, image_counter>>

\* line 90
DownloadSleep ==
  /\ pc = "download_sleep"
  /\ calls' = Append(calls, Call("sleep", "", "", "", SleepSeconds))
  /\ pos' = pos + 1
  /\ pc' = IF pos + 1 < Len(images) THEN "download" ELSE "finish"
  /\ UNCHANGED <<env, image_metadata, imagesDir, files, stdout, uncaught, obs_ids,
                 images, received, idx, handled, image_counter>>

\* line 91
Finish ==
  /\ pc = "finish"
  /\ stdout' = Append(stdout, "Done, " \o ToString(Len(images)) \o " of "
                                \o ToString(Len(images)) \o " images have been retrieved")
  /\ pc' = "done"
  /\ UNCHANGED <<env, image_metadata, imagesDir, files, calls, uncaught, obs_ids,
                 images, received, idx, pos, handled, image_counter>>

Next ==
  \/ LoadMissing
  \/ LoadNoIdColumn
  \/ LoadObservations
  \/ FetchPhotos
  \/ FetchMalformed
  \/ FetchRaises
  \/ FetchSleep
  \/ ExportCsv
  \/ ExportKeyError
  \/ MakeImagesDir
  \/ ImagesDirExists
  \/ DownloadImage
  \/ DownloadRaises
  \/ DownloadSleep
  \/ Finish

Spec == Init /\ [][Next]_vars

\* ================================================================ claims
\* The calls of one kind, in order
CallsOf(op) == SelectSeq(calls, LAMBDA c : c.op = op)

\* The downloads that completed, in order
Downloads == SelectSeq(calls, LAMBDA c : c.op = "urlretrieve" /\ c.outcome = "")

\* The file system as the run found it
InitialCsv == IF rerun THEN OldCsv ELSE NoCsv

InitialFiles == IF rerun THEN OldFiles ELSE <<>>

\* Line 48 has been reached: the metadata loop is over.
FetchLoopOver == pc = "export" \/ Len(stdout) >= 2

\* C1: with observations.csv absent, the run prints a line containing
\* "Could not find observations.csv" and ends at once: no call is made (no
\* metadata request, no to_csv, no mkdir, no download), and image_metadata.csv,
\* images/ and its files are as the run found them.
C1_MissingInputStopsAtOnce ==
  ~observations.exists =>
    /\ pc \in {"load", "exited"}
    /\ calls = <<>>
    /\ image_metadata = InitialCsv
    /\ imagesDir = rerun
    /\ files = InitialFiles
    /\ pc = "exited" =>
         \E i \in DOMAIN stdout : Contains(stdout[i], "Could not find observations.csv")

C1_Witness == ~observations.exists /\ pc = "exited" /\ ~rerun

\* C2: for an id column of N rows the metadata requests are, in order, those
\* for the ids at 0-based positions 10..19 clipped to N, duplicates kept: at
\* any time a prefix of that sequence, and all of it (min(max(N-10,0),10)
\* requests) once the loop is over.
C2_RequestCount(n) ==
  LET past == IF n - 10 > 0 THEN n - 10 ELSE 0 IN IF past < 10 THEN past ELSE 10

\* The URL of the i-th request (i from 1): that of the id at 0-based position 9 + i
C2_ExpectedUrl(i) ==
  "https://www.inaturalist.org/observations/" \o ToString(observations.ids[10 + i]) \o ".json"

C3_HasUrl(image) == "original_size_url" \in DOMAIN image /\ image.original_size_url # ""

C3_WithUrl == SelectSeq(SubSeq(images, 1, Len(handled)), C3_HasUrl)

C4_Header ==
  <<"observation_id", "photo_id", "created_at", "updated_at", "inaturalist_page_url",
    "inaturalist_username", "license", "subtype", "original_image_url", "license_code",
    "attribution", "license_name", "license_url", "type", "image_url">>

C4_FifteenColumns ==
  CallsOf("to_csv") # <<>> =>
    /\ image_metadata.exists
    /\ image_metadata.header = C4_Header
    /\ \A i \in DOMAIN image_metadata.rows : Len(image_metadata.rows[i]) = 15

C4_Witness ==
  /\ CallsOf("to_csv") # <<>>
  /\ \E i \in DOMAIN images : "square_url" \in DOMAIN images[i]
  /\ \E i \in DOMAIN images : "id" \notin DOMAIN images[i]

\* C5: the i-th record of images is the one built from the i-th entry of
\* observation_photos received (observations in loop order, entries in
\* answer order); the i-th row written and the i-th download iteration are
\* for that same record; so images is as the metadata loop left it through
\* the export and the downloads.
C5_SameOrderTwice ==
  /\ Len(images) = Len(received)
  /\ \A i \in DOMAIN received :
       /\ Without(images[i], "original_size_url") = MergedPhoto(received[i])
       /\ "original_size_url" \in DOMAIN images[i]
  /\ CallsOf("to_csv") # <<>> =>
       /\ Len(image_metadata.rows) = Len(received)
       /\ \A i \in DOMAIN received :
            /\ image_metadata.rows[i][1] = received[i].observation_id
            /\ image_metadata.rows[i][2] = Get(Get(received[i], "photo", <<>>), "id", "")
            /\ image_metadata.rows[i][15] = images[i].original_size_url
  /\ Len(handled) <= Len(received)
  /\ \A i \in DOMAIN handled :
       /\ Without(handled[i].image, "original_size_url") = MergedPhoto(received[i])
       /\ handled[i].image = images[i]

C5_Witness ==
  /\ pc = "done"
  /\ Len(images) >= 2
  /\ images[1] # images[2]
  /\ Len(handled) = Len(images)

\* C6: on a run that finds images/ in place, os.mkdir's FileExistsError ends
\* nothing: the run prints "Images directory already exists." (and not
\* "Created images directory.") and goes on to the downloads; a file found
\* there is still there, holding the bytes of the last download to its name
\* if there was one, and what it held otherwise.
C6_LastDownloadTo(done, name) ==
  LET last == CHOOSE j \in DOMAIN done :
                /\ done[j].file = name
                /\ \A k \in DOMAIN done : done[k].file = name => k <= j
  IN  done[last]

C6_RerunOverwrites ==
  rerun =>
    /\ imagesDir
    /\ uncaught # "FileExistsError"
    /\ "Created images directory." \notin Range(stdout)
    /\ CallsOf("mkdir") # <<>> =>
         /\ "Images directory already exists." \in Range(stdout)
         /\ pc \in {"download", "download_sleep", "finish", "done", "crashed"}
         /\ pc = "crashed" => uncaught \in DownloadErrors
    /\ LET done == Downloads IN
         \A name \in DOMAIN OldFiles :
           /\ name \in DOMAIN files
           /\ files[name] =
                IF \E j \in DOMAIN done : done[j].file = name
                THEN "bytes of " \o C6_LastDownloadTo(done, name).url
                ELSE OldFiles[name]

C6_Witness ==
  /\ rerun
  /\ pc = "done"
  /\ files["images/observation2_image1.jpg"] = "bytes of https://x/1/original.jpg"
  /\ files["images/observation9_image9.jpg"] = OldContent

\* C7: in the order of the calls made, every metadata request comes before
\* to_csv, to_csv before os.mkdir, os.mkdir before every download; to_csv is
\* called only when all the requests of the loop have been made, os.mkdir only
\* after to_csv, a download only after os.mkdir.
C7_Rank(c) ==
  CASE c.op = "get" -> 1
    [] c.op = "to_csv" -> 2
    [] c.op = "mkdir" -> 3
    [] c.op = "urlretrieve" -> 4
    [] OTHER -> 0

\* The requests, the export, the mkdir and the downloads, in call order
C7_Phased == SelectSeq(calls, LAMBDA c : C7_Rank(c) > 0)

C7_Count(phased, op) == Cardinality({i \in DOMAIN phased : phased[i].op = op})

C7_PhasesInSequence ==
  LET phased == C7_Phased IN
    /\ \A i \in 1..(Len(phased) - 1) : C7_Rank(phased[i]) <= C7_Rank(phased[i + 1])
    /\ C7_Count(phased, "to_csv") <= 1
    /\ C7_Count(phased, "mkdir") <= 1
    /\ C7_Count(phased, "to_csv") > 0 =>
         C7_Count(phased, "get") = C2_RequestCount(Len(observations.ids))
    /\ C7_Count(phased, "mkdir") > 0 => C7_Count(phased, "to_csv") > 0
    /\ C7_Count(phased, "urlretrieve") > 0 => C7_Count(phased, "mkdir") > 0
    /\ (imagesDir /\ ~rerun) => image_metadata.exists

C7_Witness ==
  /\ pc = "done"
  /\ ~rerun
  /\ Len(CallsOf("get")) >= 2
  /\ Len(CallsOf("urlretrieve")) >= 2

\* C8: every completed iteration of either loop has made exactly one
\* time.sleep(1), with or without photos in the answer and with or without a
\* download; so between any two network calls of a run there is a sleep.
C8_IsNetwork(c) == c.op \in {"get", "urlretrieve"}

\* The iterations begun whose body ran to the sleep
C8_BodiesRun == Len(SelectSeq(calls, LAMBDA c : c.op = "get" /\ c.outcome \in {"200", "404"}))
                  + Len(handled)

\* 1 when the body of an iteration has run and its sleep has not (or never
\* will: line 43 raised)
C8_Pending ==
  IF pc \in {"fetch_sleep", "download_sleep"} \/ uncaught = "AttributeError" THEN 1 ELSE 0

\* The network calls and the sleeps, in call order: two network calls with no
\* sleep between them are neighbours here
C8_NetworkAndSleeps == SelectSeq(calls, LAMBDA c : C8_IsNetwork(c) \/ c.op = "sleep")

C8_OnePausePerIteration ==
  /\ \A i \in DOMAIN calls : calls[i].op = "sleep" => calls[i].secs = 1
  /\ Len(CallsOf("sleep")) + C8_Pending = C8_BodiesRun
  /\ LET timed == C8_NetworkAndSleeps IN
       \A i \in 1..(Len(timed) - 1) : ~(C8_IsNetwork(timed[i]) /\ C8_IsNetwork(timed[i + 1]))

C8_Witness ==
  /\ pc = "done"
  /\ \E i \in DOMAIN handled : ~handled[i].wrote
  /\ \E i \in DOMAIN handled : handled[i].wrote
  /\ Len(CallsOf("get")) > Len(images)

\* C9 as stated: any failure of a request, an error answer included, is the
\* last thing the run does.
C9_FailedOutcomes == RequestErrors \cup DownloadErrors \cup {"404"}

C9_AnyFailureIsFatal ==
  \A i \in DOMAIN calls :
    (C8_IsNetwork(calls[i]) /\ calls[i].outcome \in C9_FailedOutcomes)
      => (i = Len(calls) /\ pc = "crashed")

\* C9, amended: a request that raises is the last call of the run, which ends
\* with that exception.  Raised by a metadata request: to_csv and os.mkdir
\* are never called, image_metadata.csv and images/ are as found.  Raised by
\* the download of record k: image_metadata.csv holds a row per record, the
\* records before k have been handled and those of them with a URL
\* downloaded, and nothing is on record for k or later.  An error answer
\* with a JSON object raises nothing: the sleep of that iteration follows.
C9_RaisedFailureIsFatal ==
  \A i \in DOMAIN calls :
    /\ (C8_IsNetwork(calls[i]) /\ calls[i].outcome \in RequestErrors \cup DownloadErrors) =>
         /\ i = Len(calls)
         /\ pc = "crashed"
         /\ uncaught = calls[i].outcome
         /\ calls[i].op = "get" =>
              /\ CallsOf("to_csv") = <<>>
              /\ CallsOf("mkdir") = <<>>
              /\ image_metadata = InitialCsv
              /\ imagesDir = rerun
              /\ files = InitialFiles
         /\ calls[i].op = "urlretrieve" =>
              /\ image_metadata.exists
              /\ Len(image_metadata.rows) = Len(images)
              /\ Len(handled) = pos
              /\ Len(handled) < Len(images)
              /\ calls[i].url = images[pos + 1].original_size_url
              /\ Len(Downloads) = Len(C3_WithUrl)
              /\ \A j \in DOMAIN Downloads : Downloads[j].file \in DOMAIN files
    /\ (calls[i].op = "get" /\ calls[i].outcome = "404" /\ i < Len(calls)) =>
         calls[i + 1].op = "sleep"

C9_Witness ==
  /\ pc = "crashed"
  /\ uncaught \in DownloadErrors
  /\ Len(handled) >= 1
  /\ handled[1].wrote
  /\ \E i \in DOMAIN calls : calls[i].outcome = "404"

\* C10 as stated: the export succeeds only when every record has every one
\* of the 15 fields.
C10_EveryRecordComplete ==
  CallsOf("to_csv") # <<>> =>
    \A i \in DOMAIN images : Range(keep_columns) \subseteq DOMAIN images[i]

\* C10, amended: the projection fails exactly when one of the 15 fields is
\* in no record at all (so always for an empty sequence); the run then ends
\* with KeyError, image_metadata.csv not written and nothing downloaded.
\* Otherwise the table is written, and a record that lacks a field another
\* record has gets an empty field there.
C10_Uncovered ==
  {c \in Range(keep_columns) : \A i \in DOMAIN images : c \notin DOMAIN images[i]}

C10_ExportPast == Len(stdout) >= 2

C10_FailsWhenNoRecordHasField ==
  /\ (C10_ExportPast /\ C10_Uncovered # {}) =>
       /\ pc = "crashed"
       /\ uncaught = "KeyError"
       /\ CallsOf("to_csv") = <<>>
       /\ image_metadata = InitialCsv
       /\ CallsOf("urlretrieve") = <<>>
  /\ (C10_ExportPast /\ C10_Uncovered = {}) =>
       /\ CallsOf("to_csv") # <<>>
       /\ uncaught # "KeyError"
       /\ \A i \in DOMAIN images : \A j \in DOMAIN keep_columns :
            keep_columns[j] \notin DOMAIN images[i] => image_metadata.rows[i][j] = ""

C10_Witness ==
  /\ CallsOf("to_csv") # <<>>
  /\ \E i \in DOMAIN images : "id" \notin DOMAIN images[i]
  /\ \E i \in DOMAIN images : "license" \notin DOMAIN images[i]

====
